---- MODULE Spec2Model ----
(***************************************************************************)
(* Model of src/src/main.rs: the terminal documentation manager.           *)
(*                                                                         *)
(* The state is the App struct (status, logs, files, file_list_state,      *)
(* current_content, focus, should_quit), the terminal mode main() enters   *)
(* and leaves, the position of main() in its event loop, and the file      *)
(* store that fs::read_to_string / fs::write act on.                       *)
(*                                                                         *)
(* Indices are Rust's: 0-based.  files is a TLA+ sequence, so files[i]     *)
(* of the source is files[i + 1] here (FileAt).                            *)
(*                                                                         *)
(* Every fallible call is a choice of the environment: a `?` in main may   *)
(* return the error, a read or a write may fail, `git` may not spawn.  A   *)
(* panic stops the process where it is (pc = "panicked").                  *)
(***************************************************************************)
EXTENDS Integers, Sequences, FiniteSets, TLC

VARIABLES
    pc,               \* position of main(): "start", "loop", "poll", "exited", "panicked"
    rawMode,          \* terminal is in raw mode
    altScreen,        \* terminal is in the alternate screen
    exitCause,        \* why main() returned: "none", "quit", or the failing step
    status,           \* App.status
    logs,             \* App.logs
    files,            \* App.files
    selected,         \* App.file_list_state.selected(): None or an index
    current_content,  \* App.current_content (bytes of a valid UTF-8 string)
    focus,            \* App.focus
    should_quit,      \* App.should_quit
    store,            \* the file system: path -> bytes
    logPane,          \* the items of the "Console Output" list in the last frame
    contentOrigin     \* history: path current_content was last loaded from

appVars == <<status, logs, files, selected, current_content, focus, should_quit>>
termVars == <<rawMode, altScreen>>
vars == <<pc, rawMode, altScreen, exitCause, status, logs, files, selected,
          current_content, focus, should_quit, store, logPane, contentOrigin>>

----------------------------------------------------------------------------
(* Bounds                                                                  *)

MaxFiles == 2      \* most .md/.mdx files in the project directory
MaxLogs == 4       \* App.logs is unbounded in the source; capped here
MaxPaneLogs == 11  \* most lines of a log drawn by SpecLogPane

----------------------------------------------------------------------------
(* Values                                                                  *)

None == -1         \* Option::None of ListState::selected()
NoPath == "<none>" \* contentOrigin before any load

\* usize::MAX as far as TLC's integers reach; only min(i + 1, UsizeMax) is
\* ever taken of it, which is i + 1 for every index of the model.
UsizeMax == 2147483647

PaneLines == 10    \* .take(10) of the log pane

\* The .md/.mdx paths under the project directory, in WalkDir's traversal
\* order; a directory holds the first n of them.
PathTable == <<"a.md", "b.mdx", "c.md">>
PathsOf(n) == {PathTable[k] : k \in 1..n}

\* File contents are byte strings: "A" followed by U+00E9 (two bytes), and
\* a byte string that is not UTF-8.
Text == <<65, 195, 169>>
NotUtf8 == <<255>>
Contents == {Text, NotUtf8}

FileList == "FileList"
Editor == "Editor"
Log == "Log"
Focuses == {FileList, Editor, Log}

KeyCodes == {"q", "Tab", "Up", "Down", "g", "s", "r", "x"}
Keys == [code : KeyCodes, ctrl : BOOLEAN]

\* WalkDir over the project directory: the matching paths that exist, in
\* traversal order.
Scan(st) == [k \in 1..Cardinality(DOMAIN st) |-> PathTable[k]]

\* stdout of `git status --short`, as characters.
GitOutputs ==
    { <<>>,
      <<"M", "\n">>,
      <<"M", "\n", "?">>,
      <<"M", "\r", "\n", "?", "\n">> }

----------------------------------------------------------------------------
(* Log lines: each is a sequence of strings, formatted as the source does. *)

StartedLine == <<"[System] Manager started.">>
LoadedLine(p) == <<"[File] Loaded ", p>>
SavedLine(p) == <<"[File] Saved ", p>>
GitHeaderLine == <<"-- Git Status --">>
DockerLine == <<"[Docker] Container started on port 3000">>

----------------------------------------------------------------------------
(* Pure functions of the source                                            *)

FileAt(fs, i) == fs[i + 1]
InBounds(fs, i) == 0 <= i /\ i < Len(fs)

\* A Tab arm that sends Log back to Editor.
NextFocusSkippingFileList(f) ==
    CASE f = FileList -> Editor
      [] f = Editor -> Log
      [] f = Log -> Editor

\* focus match of the Tab arm
NextFocus(f) ==
    CASE f = FileList -> Editor
      [] f = Editor -> Log
      [] f = Log -> FileList

\* Option::unwrap_or(0)
UnwrapOr0(sel) == IF sel = None THEN 0 ELSE sel

\* usize::saturating_sub(1)
SaturatingSub1(i) == IF i = 0 THEN 0 ELSE i - 1

\* files.len() - 1 in a build without overflow checks (wrapping)
WrappingSub1(n) == IF n = 0 THEN UsizeMax ELSE n - 1

Min(a, b) == IF a <= b THEN a ELSE b

UpIndex(sel) == SaturatingSub1(UnwrapOr0(sel))

\* A move-down without the .min(len - 1) clamp.
DownIndexUnclamped(sel, len) == UnwrapOr0(sel) + 1

DownIndex(sel, len) == Min(UnwrapOr0(sel) + 1, WrappingSub1(len))

\* UTF-8 validation of String::from_utf8 inside fs::read_to_string, for the
\* one- and two-byte forms (the only lead bytes Contents holds).
RECURSIVE Utf8Valid(_)
Utf8Valid(b) ==
    IF b = <<>> THEN TRUE
    ELSE IF b[1] < 128 THEN Utf8Valid(Tail(b))
    ELSE IF b[1] \in 194..223 /\ Len(b) >= 2 /\ b[2] \in 128..191
         THEN Utf8Valid(Tail(Tail(b)))
    ELSE FALSE

\* fs::read_to_string: Ok(text) when the file can be read and is UTF-8.
ReadOk(bytes, access) == access /\ Utf8Valid(bytes)
ReadText(bytes) == bytes

\* A write that ends the file with a line feed, as writeln! would.
WrittenBytesWithNewline(text) == Append(text, 10)

\* fs::write(path, text): the bytes of the string replace the file.
WrittenBytes(text) == text

\* A match whose Up and Down arms have no `if app.focus == Focus::FileList`
\* guard.
MatchArmIgnoringFocus(key, f) ==
    IF key.code = "q" THEN "quit"
    ELSE IF key.code = "Tab" THEN "tab"
    ELSE IF key.code = "Up" THEN "up"
    ELSE IF key.code = "Down" THEN "down"
    ELSE IF key.code = "g" THEN "git"
    ELSE IF key.code = "s" /\ key.ctrl THEN "save"
    ELSE IF key.code = "r" THEN "run"
    ELSE "other"

\* The first matching arm of `match key.code`.
MatchArm(key, f) ==
    IF key.code = "q" THEN "quit"
    ELSE IF key.code = "Tab" THEN "tab"
    ELSE IF key.code = "Up" /\ f = FileList THEN "up"
    ELSE IF key.code = "Down" /\ f = FileList THEN "down"
    ELSE IF key.code = "g" THEN "git"
    ELSE IF key.code = "s" /\ key.ctrl THEN "save"
    ELSE IF key.code = "r" THEN "run"
    ELSE "other"

\* The arms that some key press reaches while the focus is f.
ArmsIn == [f \in Focuses |-> {MatchArm(key, f) : key \in Keys}]

----------------------------------------------------------------------------
(* Initial state: the process has started, main() has not run yet.  The    *)
(* App fields hold the values of the struct literal in App::new.           *)

Init ==
    /\ pc = "start"
    /\ rawMode = FALSE
    /\ altScreen = FALSE
    /\ exitCause = "none"
    /\ status = "OFFLINE"
    /\ logs = <<StartedLine>>
    /\ files = <<>>
    /\ selected = None
    /\ current_content = <<>>
    /\ focus = FileList
    /\ should_quit = FALSE
    /\ store \in UNION {[PathsOf(n) -> Contents] : n \in 0..MaxFiles}
    /\ logPane = <<>>
    /\ contentOrigin = NoPath

----------------------------------------------------------------------------
(* The collaborators' results, as the methods of App compute them          *)

\* str::lines(): split at "\n", a "\r" right before it is dropped, and an
\* empty last line is not produced.
StripCr(line) ==
    IF line # <<>> /\ line[Len(line)] = "\r"
    THEN SubSeq(line, 1, Len(line) - 1)
    ELSE line

RECURSIVE SplitLines(_, _)
SplitLines(s, cur) ==
    IF s = <<>> THEN (IF cur = <<>> THEN <<>> ELSE <<cur>>)
    ELSE IF Head(s) = "\n" THEN <<StripCr(cur)>> \o SplitLines(Tail(s), <<>>)
    ELSE SplitLines(Tail(s), Append(cur, Head(s)))

Lines(s) == SplitLines(s, <<>>)

\* App::refresh_files: the new selection for a scan result
RefreshSelected(sel, listing) ==
    IF listing # <<>> /\ sel = None THEN 0 ELSE sel

\* A load that takes unwrap_or_default() of the read: a failure clears the
\* buffer.
LoadContentOrDefault(old, bytes, access) ==
    IF ReadOk(bytes, access) THEN ReadText(bytes) ELSE <<>>

\* App::load_selected_file, given that files[i] exists
LoadContent(old, bytes, access) ==
    IF ReadOk(bytes, access) THEN ReadText(bytes) ELSE old

\* A load that keeps the log at its length by dropping the oldest line.
LoadLogsEvicting(lg, path, bytes, access) ==
    IF ReadOk(bytes, access) THEN Append(Tail(lg), LoadedLine(path)) ELSE lg

LoadLogs(lg, path, bytes, access) ==
    IF ReadOk(bytes, access) THEN Append(lg, LoadedLine(path)) ELSE lg

\* App::save_current_file, given that files[i] exists.  A failed fs::write
\* is one that could not open the file: the file stays as it was.
\* SaveStoreFirstFile is a save that writes the first listed file whatever
\* the selection is.
SaveStoreFirstFile(st, path, text, ok) ==
    IF ok THEN [st EXCEPT ![PathTable[1]] = WrittenBytes(text)] ELSE st

SaveStore(st, path, text, ok) ==
    IF ok THEN [st EXCEPT ![path] = WrittenBytes(text)] ELSE st

\* A save that logs without looking at the result of fs::write.
SaveLogsUnchecked(lg, path, ok) == Append(lg, SavedLine(path))

SaveLogs(lg, path, ok) ==
    IF ok THEN Append(lg, SavedLine(path)) ELSE lg

\* ui(): app.logs.iter().rev().take(10)
Reversed(s) == [i \in 1..Len(s) |-> s[Len(s) + 1 - i]]
Take(s, n) == SubSeq(s, 1, Min(n, Len(s)))

\* A log pane that takes the first ten lines without .rev().
LogItemsOldestFirst(lg) == Take(lg, PaneLines)

LogItems(lg) == Take(Reversed(lg), PaneLines)

\* A git_status that pushes the header after the output lines.
GitLogsHeaderLast(lg, spawned, out) ==
    IF spawned THEN (lg \o Lines(out)) \o <<GitHeaderLine>> ELSE lg

\* App::git_status
GitLogs(lg, spawned, out) ==
    IF spawned THEN (lg \o <<GitHeaderLine>>) \o Lines(out) ELSE lg

----------------------------------------------------------------------------
(* Steps of main()                                                         *)

Exit(cause) ==
    /\ pc' = "exited"
    /\ exitCause' = cause

Panic ==
    /\ pc' = "panicked"
    /\ exitCause' = "panic"

\* line 100: enable_raw_mode()? fails
StartupFailRaw ==
    /\ pc = "start"
    /\ Exit("enable_raw_mode")
    /\ UNCHANGED <<termVars, appVars, store, contentOrigin>>
    /\ UNCHANGED logPane

\* line 102: execute!(EnterAlternateScreen, EnableMouseCapture)? fails
StartupFailAlt ==
    /\ pc = "start"
    /\ rawMode' = TRUE
    /\ altScreen' \in BOOLEAN
    /\ Exit("enter_alternate_screen")
    /\ UNCHANGED <<appVars, store, contentOrigin>>
    /\ UNCHANGED logPane

\* line 104: Terminal::new(backend)? fails
StartupFailTerminal ==
    /\ pc = "start"
    /\ rawMode' = TRUE
    /\ altScreen' = TRUE
    /\ Exit("terminal_new")
    /\ UNCHANGED <<appVars, store, contentOrigin>>
    /\ UNCHANGED logPane

\* line 106: App::new()? fails (current_dir)
StartupFailApp ==
    /\ pc = "start"
    /\ rawMode' = TRUE
    /\ altScreen' = TRUE
    /\ Exit("app_new")
    /\ UNCHANGED <<appVars, store, contentOrigin>>
    /\ UNCHANGED logPane

\* lines 100-106 succeed: App::new builds the state and calls refresh_files
StartupOk ==
    /\ pc = "start"
    /\ rawMode' = TRUE
    /\ altScreen' = TRUE
    /\ files' = Scan(store)
    /\ selected' = RefreshSelected(None, Scan(store))
    /\ status' = "OFFLINE"
    /\ logs' = <<StartedLine>>
    /\ current_content' = <<>>
    /\ focus' = FileList
    /\ should_quit' = FALSE
    /\ pc' = "loop"
    /\ UNCHANGED <<exitCause, store, contentOrigin>>
    /\ UNCHANGED logPane

\* A ui() that reverses app.logs in place to show the newest line first.
DrawReversingLogs ==
    /\ pc = "loop"
    /\ ~should_quit
    /\ logs' = Reversed(logs)
    /\ logPane' = Take(logs', PaneLines)
    /\ pc' = "poll"
    /\ UNCHANGED <<exitCause, termVars, status, files, selected,
                   current_content, focus, should_quit, store, contentOrigin>>

\* A loop that tests should_quit after the body (do-while): it draws once
\* more after the quit key.
DrawWithoutQuitCheck ==
    /\ pc = "loop"
    /\ logPane' = LogItems(logs)
    /\ pc' = "poll"
    /\ UNCHANGED <<exitCause, termVars, appVars, store, contentOrigin>>

\* line 109: terminal.draw succeeds.  ui() reads the fields of App and
\* builds the frame, of which the log pane is kept here; the List widget
\* keeps its scroll offset in file_list_state, which is not part of this
\* state, and finds the selection None or inside the list.
Draw ==
    /\ pc = "loop"
    /\ ~should_quit
    /\ logPane' = LogItems(logs)
    /\ pc' = "poll"
    /\ UNCHANGED <<exitCause, termVars, appVars, store, contentOrigin>>

\* line 109: terminal.draw(...)? fails
DrawFail ==
    /\ pc = "loop"
    /\ ~should_quit
    /\ Exit("draw")
    /\ UNCHANGED <<termVars, appVars, store, contentOrigin>>
    /\ UNCHANGED logPane

\* line 111: event::poll(...)? fails
PollFail ==
    /\ pc = "poll"
    /\ Exit("poll")
    /\ UNCHANGED <<termVars, appVars, store, contentOrigin>>
    /\ UNCHANGED logPane

\* line 112: event::read()? fails
ReadFail ==
    /\ pc = "poll"
    /\ Exit("read")
    /\ UNCHANGED <<termVars, appVars, store, contentOrigin>>
    /\ UNCHANGED logPane

\* lines 111-113: the poll times out, or the event is no key press
NoKeyPress ==
    /\ pc = "poll"
    /\ pc' = "loop"
    /\ UNCHANGED <<exitCause, termVars, appVars, store, contentOrigin>>
    /\ UNCHANGED logPane

\* lines 152-154 after the loop ends
TeardownOk ==
    /\ pc = "loop"
    /\ should_quit
    /\ rawMode' = FALSE
    /\ altScreen' = FALSE
    /\ Exit("quit")
    /\ UNCHANGED <<appVars, store, contentOrigin>>
    /\ UNCHANGED logPane

\* line 152: disable_raw_mode()? fails
TeardownFailRaw ==
    /\ pc = "loop"
    /\ should_quit
    /\ Exit("disable_raw_mode")
    /\ UNCHANGED <<termVars, appVars, store, contentOrigin>>
    /\ UNCHANGED logPane

\* line 153: execute!(LeaveAlternateScreen, DisableMouseCapture)? fails
TeardownFailAlt ==
    /\ pc = "loop"
    /\ should_quit
    /\ rawMode' = FALSE
    /\ altScreen' \in BOOLEAN
    /\ Exit("leave_alternate_screen")
    /\ UNCHANGED <<appVars, store, contentOrigin>>
    /\ UNCHANGED logPane

----------------------------------------------------------------------------
(* The arms of `match key.code` (lines 114-146).  Each action is one pass  *)
(* of the loop body after the draw: poll, read, the arm, back to `while`.  *)

\* App::load_selected_file with the selection already set to sel
LoadSelectedFile(sel, access) ==
    IF sel = None
    THEN /\ pc' = "loop"
         /\ UNCHANGED <<exitCause, current_content, logs, contentOrigin>>
    ELSE IF ~InBounds(files, sel)
    THEN /\ Panic                       \* self.files[i]: index out of bounds
         /\ UNCHANGED <<current_content, logs, contentOrigin>>
    ELSE LET path == FileAt(files, sel)
             bytes == store[path]
         IN  /\ current_content' = LoadContent(current_content, bytes, access)
             /\ logs' = LoadLogs(logs, path, bytes, access)
             /\ Len(logs') <= MaxLogs
             /\ contentOrigin' = IF ReadOk(bytes, access) THEN path ELSE contentOrigin
             /\ pc' = "loop"
             /\ UNCHANGED exitCause

\* line 115
PressQuit ==
    /\ pc = "poll"
    /\ "quit" \in ArmsIn[focus]
    /\ should_quit' = TRUE
    /\ pc' = "loop"
    /\ UNCHANGED <<exitCause, termVars, status, logs, files, selected,
                   current_content, focus, store, contentOrigin>>
    /\ UNCHANGED logPane

\* lines 116-122
PressTab ==
    /\ pc = "poll"
    /\ "tab" \in ArmsIn[focus]
    /\ focus' = NextFocus(focus)
    /\ pc' = "loop"
    /\ UNCHANGED <<exitCause, termVars, status, logs, files, selected,
                   current_content, should_quit, store, contentOrigin>>
    /\ UNCHANGED logPane

\* lines 124-128; access: whether the file can be read
PressUpWith(access) ==
    /\ pc = "poll"
    /\ "up" \in ArmsIn[focus]
    /\ selected' = UpIndex(selected)
    /\ LoadSelectedFile(UpIndex(selected), access)
    /\ UNCHANGED <<termVars, status, files, focus, should_quit, store>>
    /\ UNCHANGED logPane

PressUp == \E access \in BOOLEAN : PressUpWith(access)

\* lines 129-133.  files.len() - 1 on an empty list panics in a build with
\* overflow checks and wraps in one without.
PressDownWith(overflowChecks, access) ==
    /\ pc = "poll"
    /\ "down" \in ArmsIn[focus]
    /\ IF overflowChecks /\ Len(files) = 0
       THEN /\ Panic                    \* attempt to subtract with overflow
            /\ UNCHANGED <<selected, current_content, logs, contentOrigin>>
       ELSE /\ selected' = DownIndex(selected, Len(files))
            /\ LoadSelectedFile(DownIndex(selected, Len(files)), access)
    /\ UNCHANGED <<termVars, status, files, focus, should_quit, store>>
    /\ UNCHANGED logPane

PressDown ==
    \E overflowChecks \in BOOLEAN, access \in BOOLEAN :
        PressDownWith(overflowChecks, access)

\* line 135 and App::git_status; spawned: whether `git` could be run,
\* out: what it wrote to stdout
PressGitWith(spawned, out) ==
    /\ pc = "poll"
    /\ "git" \in ArmsIn[focus]
    /\ logs' = GitLogs(logs, spawned, out)
    /\ Len(logs') <= MaxLogs
    /\ pc' = "loop"
    /\ UNCHANGED <<exitCause, termVars, status, files, selected,
                   current_content, focus, should_quit, store, contentOrigin>>
    /\ UNCHANGED logPane

PressGit ==
    \E spawned \in BOOLEAN, out \in GitOutputs : PressGitWith(spawned, out)

\* lines 137-139 and App::save_current_file; ok: whether fs::write succeeds
PressSaveWith(ok) ==
    /\ pc = "poll"
    /\ "save" \in ArmsIn[focus]
    /\ IF selected = None
       THEN /\ pc' = "loop"
            /\ UNCHANGED <<exitCause, store, logs>>
       ELSE IF ~InBounds(files, selected)
       THEN /\ Panic                    \* self.files[i]: index out of bounds
            /\ UNCHANGED <<store, logs>>
       ELSE LET path == FileAt(files, selected)
            IN  /\ store' = SaveStore(store, path, current_content, ok)
                /\ logs' = SaveLogs(logs, path, ok)
                /\ Len(logs') <= MaxLogs
                /\ pc' = "loop"
                /\ UNCHANGED exitCause
    /\ UNCHANGED <<termVars, status, files, selected, current_content, focus,
                   should_quit, contentOrigin>>
    /\ UNCHANGED logPane

PressSave == \E ok \in BOOLEAN : PressSaveWith(ok)

\* An r arm that flips the status instead of setting it.
PressRunToggling ==
    /\ pc = "poll"
    /\ "run" \in ArmsIn[focus]
    /\ status' = IF status = "RUNNING" THEN "OFFLINE" ELSE "RUNNING"
    /\ logs' = Append(logs, DockerLine)
    /\ Len(logs') <= MaxLogs
    /\ pc' = "loop"
    /\ UNCHANGED <<exitCause, termVars, files, selected, current_content,
                   focus, should_quit, store, contentOrigin>>
    /\ UNCHANGED logPane

\* lines 141-144
PressRun ==
    /\ pc = "poll"
    /\ "run" \in ArmsIn[focus]
    /\ status' = "RUNNING"
    /\ logs' = Append(logs, DockerLine)
    /\ Len(logs') <= MaxLogs
    /\ pc' = "loop"
    /\ UNCHANGED <<exitCause, termVars, files, selected, current_content,
                   focus, should_quit, store, contentOrigin>>
    /\ UNCHANGED logPane

\* line 145
PressOther ==
    /\ pc = "poll"
    /\ "other" \in ArmsIn[focus]
    /\ pc' = "loop"
    /\ UNCHANGED <<exitCause, termVars, appVars, store, contentOrigin>>
    /\ UNCHANGED logPane

----------------------------------------------------------------------------

Next ==
    \/ StartupFailRaw
    \/ StartupFailAlt
    \/ StartupFailTerminal
    \/ StartupFailApp
    \/ StartupOk
    \/ Draw
    \/ DrawFail
    \/ PollFail
    \/ ReadFail
    \/ NoKeyPress
    \/ PressQuit
    \/ PressTab
    \/ PressUp
    \/ PressDown
    \/ PressGit
    \/ PressSave
    \/ PressRun
    \/ PressOther
    \/ TeardownOk
    \/ TeardownFailRaw
    \/ TeardownFailAlt

Spec == Init /\ [][Next]_vars

----------------------------------------------------------------------------
(* App::refresh_files called again.  main calls it only through App::new;  *)
(* this specification adds the call to the loop, as a manual refresh       *)
(* would, after the directory has lost some of its files (or got them      *)
(* back): WalkDir yields the first n paths.                                *)

Rescan ==
    /\ pc = "poll"
    /\ \E n \in 0..Cardinality(DOMAIN store) :
          LET listing == [k \in 1..n |-> PathTable[k]]
          IN  /\ files' = listing
              /\ selected' = RefreshSelected(selected, listing)
    /\ pc' = "loop"
    /\ UNCHANGED <<exitCause, termVars, status, logs, current_content, focus,
                   should_quit, store, logPane, contentOrigin>>

NextRescan ==
    \/ Next
    \/ Rescan

SpecRescan == Init /\ [][NextRescan]_vars

\* ui() drawing the log pane of an App whose log has grown to any length up
\* to MaxPaneLogs: the started line, then any lines of the run and git arms.
\* The App is the one started in an empty directory.
LogsOfLen(n) ==
    {<<StartedLine>> \o tail : tail \in [1..(n - 1) -> {DockerLine, GitHeaderLine}]}

InitLogPane ==
    /\ pc = "loop"
    /\ rawMode = TRUE
    /\ altScreen = TRUE
    /\ exitCause = "none"
    /\ logs \in UNION {LogsOfLen(n) : n \in 1..MaxPaneLogs}
    /\ status = IF \E i \in 1..Len(logs) : logs[i] = DockerLine
                THEN "RUNNING" ELSE "OFFLINE"
    /\ files = <<>>
    /\ selected = None
    /\ current_content = <<>>
    /\ focus \in Focuses
    /\ should_quit = FALSE
    /\ store = [p \in {} |-> Text]
    /\ logPane = <<>>
    /\ contentOrigin = NoPath

NextLogPane ==
    \/ Draw
    \/ NoKeyPress

SpecLogPane == InitLogPane /\ [][NextLogPane]_vars

----------------------------------------------------------------------------
(* Properties                                                              *)

Running == pc \in {"loop", "poll"}
FileSelected == selected # None /\ InBounds(files, selected)
SelectedPath == FileAt(files, selected)

\* C1: the selected index is None or satisfies 0 <= selected < len(files),
\* and it is None while files is empty.  The Up arm on an empty list sets it
\* to Some(0) before load_selected_file indexes files.
C1_SelectedInRange ==
    /\ selected = None \/ InBounds(files, selected)
    /\ files = <<>> => selected = None

\* C2: with files empty and focus on the file list, Up and Down are no-ops:
\* the loop goes on and no field of App changes.
C2_EmptyNavigationIsNoOp ==
    [][(files = <<>> /\ focus = FileList /\ (PressUp \/ PressDown))
          => (pc' = "loop" /\ UNCHANGED appVars)]_vars

\* C3: when main has returned, by the normal quit or by an error propagated
\* from App::new, from the draw or from polling or reading an event, the
\* terminal is out of raw mode and out of the alternate screen.
C3_TerminalReleasedOnExit ==
    (pc = "exited" /\ exitCause \in {"quit", "app_new", "draw", "poll", "read"})
        => (~rawMode /\ ~altScreen)

\* C4: while the loop runs with a file selected, current_content is what
\* was last loaded from that file, so a save writes to the selected path
\* content that came from that path.
C4_ContentBelongsToSelected ==
    (Running /\ FileSelected) => contentOrigin = SelectedPath

\* C5: the status-command key with `git` failing to spawn appends exactly
\* the header line and changes nothing else.
C5_SpawnFailureLogsHeader ==
    [][(\E out \in GitOutputs : PressGitWith(FALSE, out))
          => /\ logs' = Append(logs, GitHeaderLine)
             /\ pc' = "loop"
             /\ UNCHANGED <<status, files, selected, current_content, focus,
                            should_quit, store>>]_vars

\* A navigation key press whose load_selected_file reads files[selected']
\* and fails.
NavLoadFailed(access) ==
    /\ \/ PressUpWith(access)
       \/ \E overflowChecks \in BOOLEAN : PressDownWith(overflowChecks, access)
    /\ selected' # None
    /\ InBounds(files, selected')
    /\ ~ReadOk(store[FileAt(files, selected')], access)

\* C6: a failed load triggered by navigation leaves current_content as it
\* was, the loop goes on, and files, status and focus do not change.
C6_FailedLoadKeepsContent ==
    [][(\E access \in BOOLEAN : NavLoadFailed(access))
          => /\ current_content' = current_content
             /\ pc' = "loop"
             /\ files' = files
             /\ status' = status
             /\ focus' = focus]_vars

\* The first file was loaded, then Down moved to the second, whose load
\* failed: the buffer still holds the first file's text.
C6_Witness ==
    /\ pc = "loop"
    /\ Len(files) = 2
    /\ selected = 1
    /\ store[FileAt(files, 1)] = NotUtf8
    /\ contentOrigin = FileAt(files, 0)
    /\ current_content = Text

\* C7: a failed load makes logs grow by at least one line.
C7_FailedLoadIsLogged ==
    [][(\E access \in BOOLEAN : NavLoadFailed(access))
          => Len(logs') > Len(logs)]_vars

\* C8: the save key with a file selected.  When fs::write succeeds the
\* stored content of the selected file is current_content and exactly one
\* line naming the path is appended to logs; when it fails logs does not
\* change.  Either way current_content, selected, focus and status stay.
C8_SaveLogsOnlySuccess ==
    [][\A ok \in BOOLEAN :
          (FileSelected /\ PressSaveWith(ok))
             => /\ ok => /\ store'[SelectedPath] = current_content
                         /\ logs' = Append(logs, SavedLine(SelectedPath))
                /\ ~ok => logs' = logs
                /\ pc' = "loop"
                /\ UNCHANGED <<current_content, selected, focus, status>>]_vars

\* A save that succeeded, made with the focus on the editor.
C8_Witness ==
    /\ pc = "loop"
    /\ FileSelected
    /\ focus = Editor
    /\ current_content = Text
    /\ logs[Len(logs)] = SavedLine(SelectedPath)
    /\ store[SelectedPath] = current_content

\* C9: a save that succeeds right after the selected file was loaded (the
\* last log line is that load, so nothing was loaded or saved since) leaves
\* the stored content of every file, the selected one included, as it was
\* before the save; the load wrote nothing, so also as it was before the load.
C9_LoadSaveRoundTrip ==
    [][(/\ FileSelected
        /\ logs[Len(logs)] = LoadedLine(SelectedPath)
        /\ PressSaveWith(TRUE))
          => store' = store]_vars

\* A load of the selected file followed at once by its save.
C9_Witness ==
    /\ pc = "loop"
    /\ FileSelected
    /\ Len(logs) >= 3
    /\ logs[Len(logs) - 1] = LoadedLine(SelectedPath)
    /\ logs[Len(logs)] = SavedLine(SelectedPath)
    /\ store[SelectedPath] = Text

\* C10: Tab moves focus FileList -> Editor -> Log -> FileList, two more
\* presses after any press lead back to the focus before it, and no other
\* field of App nor the file store changes.
C10_TabCyclesFocus ==
    [][PressTab
          => /\ \/ focus = FileList /\ focus' = Editor
                \/ focus = Editor /\ focus' = Log
                \/ focus = Log /\ focus' = FileList
             /\ NextFocus(NextFocus(focus')) = focus
             /\ pc' = "loop"
             /\ UNCHANGED <<status, logs, files, selected, current_content,
                            should_quit, store>>]_vars

\* Two presses of Tab from the initial focus.
C10_Witness ==
    /\ pc = "loop"
    /\ focus = Log

\* C11: status starts OFFLINE; every press of r leaves it RUNNING and
\* appends exactly one line to logs (also when it was RUNNING already); no
\* other step changes status, and RUNNING never goes back to OFFLINE.
C11_StatusSetOnlyByRun ==
    /\ status = "OFFLINE"
    /\ [][/\ PressRun => /\ status' = "RUNNING"
                         /\ logs' = Append(logs, DockerLine)
          /\ status' # status => PressRun
          /\ status = "RUNNING" => status' = "RUNNING"]_vars

\* r pressed twice in a row: RUNNING, and one line for each press.
C11_Witness ==
    /\ pc = "loop"
    /\ status = "RUNNING"
    /\ Len(logs) >= 3
    /\ logs[Len(logs) - 1] = DockerLine
    /\ logs[Len(logs)] = DockerLine

\* C12: q is accepted in every focus and sets should_quit; once should_quit
\* is true it stays true, and the only step main takes is the return from
\* the loop: no key arm, no load, save or git_status, no draw (App, the file
\* store and the drawn frame stay as they are).
C12_QuitIsTerminal ==
    /\ [](pc = "poll" => "quit" \in ArmsIn[focus])
    /\ [][/\ PressQuit => should_quit'
          /\ should_quit => /\ should_quit'
                            /\ pc' = "exited"
                            /\ UNCHANGED <<status, logs, files, selected,
                                           current_content, focus, store,
                                           logPane>>]_vars

\* main has returned by the quit key pressed with the focus on the editor.
C12_Witness ==
    /\ pc = "exited"
    /\ exitCause = "quit"
    /\ should_quit
    /\ focus = Editor

\* C13: after refresh_files has replaced files, by a shorter or an empty
\* list too, the selected index is None or less than the new len(files).
C13_RescanKeepsSelectionValid ==
    [][Rescan => (selected' = None \/ InBounds(files', selected'))]_vars

\* C14: a draw changes none of logs, files, status, current_content, focus
\* and should_quit.
C14_DrawOnlyReads ==
    [][Draw => UNCHANGED <<logs, files, status, current_content, focus,
                           should_quit>>]_vars

\* A frame drawn of a running App with several log lines.
C14_Witness ==
    /\ pc = "poll"
    /\ status = "RUNNING"
    /\ Len(logs) >= 3
    /\ logs[Len(logs)] # logs[1]
    /\ logPane # <<>>
    /\ logPane[1] = logs[Len(logs)]

\* The number of line feeds of a command output, and whether it ends in one.
RECURSIVE CountLf(_)
CountLf(s) ==
    IF s = <<>> THEN 0
    ELSE (IF Head(s) = "\n" THEN 1 ELSE 0) + CountLf(Tail(s))

EndsWithLf(s) == s # <<>> /\ s[Len(s)] = "\n"

\* C15 as stated: a status command that runs appends the header line
\* "-- Status --" and then the output lines in order, after the old lines.
C15_HeaderIsStatus ==
    [][\A out \in GitOutputs :
          PressGitWith(TRUE, out) =>
             logs' = (logs \o << <<"-- Status --">> >>) \o Lines(out)]_vars

\* C15 with the header the code pushes: a status command that runs appends
\* the header line "-- Git Status --" and then every output line in order,
\* one per line feed (and one for an unterminated last line), none holding a
\* line feed; the old lines stay in place before them.
C15_GitAppendsHeaderThenLines ==
    [][\A out \in GitOutputs :
          PressGitWith(TRUE, out) =>
             LET n == Len(logs)
                 added == SubSeq(logs', n + 2, Len(logs'))
             IN  /\ Len(logs') >= n + 1
                 /\ SubSeq(logs', 1, n) = logs
                 /\ logs'[n + 1] = <<"-- Git Status --">>
                 /\ added = Lines(out)
                 /\ Len(added) = CountLf(out)
                       + (IF out # <<>> /\ ~EndsWithLf(out) THEN 1 ELSE 0)
                 /\ \A k \in 1..Len(added) :
                       \A j \in 1..Len(added[k]) : added[k][j] # "\n"]_vars

\* The log after a status command that printed two lines.
C15_Witness ==
    /\ pc = "loop"
    /\ logs = <<StartedLine, GitHeaderLine, <<"M">>, <<"?">> >>

\* What C16 asks of a navigation step that moved the selection to index i:
\* when the read of files[i] succeeds, the buffer holds the stored content
\* of that file.
ReloadedAt(i, access) ==
    /\ selected' = i
    /\ pc' = "loop"
    /\ LET path == FileAt(files, i)
       IN  ReadOk(store[path], access) =>
              /\ current_content' = store[path]
              /\ contentOrigin' = path

\* C16: with focus = FileList and files not empty, Down selects
\* min(len(files) - 1, selected + 1) and Up selects max(0, selected - 1);
\* the file at that index is read again, at the boundary too, and a
\* successful load makes current_content the stored content of that file.
C16_NavigationMovesAndReloads ==
    [][/\ \A access \in BOOLEAN :
             (PressUpWith(access) /\ files # <<>>) =>
                ReloadedAt(IF selected - 1 >= 0 THEN selected - 1 ELSE 0, access)
       /\ \A overflowChecks \in BOOLEAN, access \in BOOLEAN :
             (PressDownWith(overflowChecks, access) /\ files # <<>>) =>
                ReloadedAt(IF selected + 1 <= Len(files) - 1
                           THEN selected + 1 ELSE Len(files) - 1, access)]_vars

\* Down has moved to the last file and loaded it.
C16_Witness ==
    /\ pc = "loop"
    /\ focus = FileList
    /\ Len(files) = 2
    /\ selected = 1
    /\ contentOrigin = FileAt(files, 1)
    /\ current_content = store[FileAt(files, 1)]
    /\ logs[Len(logs)] = LoadedLine(FileAt(files, 1))

\* C17: Up and Down pressed while the focus is Editor or Log, and any key
\* without an arm in any focus, fall to the `_` arm, which changes nothing
\* of the App and reads or writes no file; so while the focus is Editor or
\* Log no step changes the selection, the buffer or the file it was read
\* from.
C17_IgnoredKeysChangeNothing ==
    /\ [](Running =>
            /\ \A f \in {Editor, Log}, c \in BOOLEAN :
                  /\ MatchArm([code |-> "Up", ctrl |-> c], f) = "other"
                  /\ MatchArm([code |-> "Down", ctrl |-> c], f) = "other"
            /\ \A f \in Focuses :
                  /\ MatchArm([code |-> "x", ctrl |-> TRUE], f) = "other"
                  /\ MatchArm([code |-> "x", ctrl |-> FALSE], f) = "other"
                  /\ MatchArm([code |-> "s", ctrl |-> FALSE], f) = "other")
    /\ [][PressOther =>
             (pc' = "loop" /\ UNCHANGED <<appVars, store, contentOrigin>>)]_vars
    /\ [][(focus # FileList) =>
             UNCHANGED <<selected, files, current_content, contentOrigin>>]_vars

\* The loop goes on in the Log focus with the second file selected and
\* loaded.
C17_Witness ==
    /\ pc = "loop"
    /\ focus = Log
    /\ selected = 1
    /\ contentOrigin = FileAt(files, 1)
    /\ current_content = Text

\* C18: in every step the old value of logs is a prefix of the new one: no
\* line is removed, moved or rewritten, and the length never decreases.
C18_LogsAppendOnly ==
    [][/\ Len(logs') >= Len(logs)
       /\ SubSeq(logs', 1, Len(logs)) = logs]_vars

\* A log that a load, a save and a run have each added a line to.
C18_Witness ==
    /\ pc = "loop"
    /\ logs = <<StartedLine, LoadedLine("b.mdx"), SavedLine("b.mdx"), DockerLine>>

\* C19: for every log, the items of the log pane are the last
\* min(10, len(logs)) lines of logs, newest first, and drawing them leaves
\* logs as it was.
C19_LogPaneShowsLastTen ==
    /\ [](pc = "poll" =>
            /\ Len(logPane) = (IF Len(logs) < 10 THEN Len(logs) ELSE 10)
            /\ \A i \in 1..Len(logPane) : logPane[i] = logs[Len(logs) + 1 - i])
    /\ [][Draw => logs' = logs]_vars

\* A drawn log of eleven lines: the pane shows ten, the newest first, and
\* not the oldest.
C19_Witness ==
    /\ pc = "poll"
    /\ Len(logs) = 11
    /\ Len(logPane) = 10
    /\ logPane[1] = DockerLine
    /\ logPane[2] = GitHeaderLine
    /\ logPane[10] = logs[2]
    /\ logs[11] = DockerLine

\* C20: a save press leaves the stored content of every file other than the
\* selected one as it was and creates or removes no file; with nothing
\* selected it writes nothing and leaves logs and every other field as they
\* were; and no step other than a save press changes the stored files.
C20_SaveTouchesOnlySelected ==
    [][/\ \A ok \in BOOLEAN :
             PressSaveWith(ok) =>
                /\ DOMAIN store' = DOMAIN store
                /\ \A p \in DOMAIN store :
                      (~FileSelected \/ p # SelectedPath) => store'[p] = store[p]
                /\ selected = None =>
                      (pc' = "loop" /\ UNCHANGED <<store, appVars, contentOrigin>>)
       /\ store' # store => PressSave]_vars

\* The second of two files was saved; the first, which holds other bytes
\* than the buffer, is as it was.
C20_Witness ==
    /\ pc = "loop"
    /\ Len(files) = 2
    /\ selected = 1
    /\ logs[Len(logs)] = SavedLine(FileAt(files, 1))
    /\ store[FileAt(files, 1)] = current_content
    /\ store[FileAt(files, 0)] = NotUtf8

====
